---- MODULE Spec2Model ----
(***************************************************************************)
(* Notes API: the key-value-store layer (shared client, record cache,      *)
(* rate limiter, recently-viewed list) and the request handlers using it.  *)
(***************************************************************************)
EXTENDS Integers, Sequences, FiniteSets, TLC

(* ------------------------------------------------------------------ *)
(* Bounds of the model and settings (app/config.py), instantiated small *)
(* ------------------------------------------------------------------ *)

\* number of distinct client hosts
NumHosts == 1
\* number of note identifiers the persistence layer can assign
NumNotes == 2
\* the clock runs from 0 to MaxTime seconds
MaxTime == 3
\* a rate counter is driven at most to this value
MaxHits == 4
\* identifiers pushed to a recent list
MaxViewId == 3
\* pushes to one recent list before it lapses
MaxPushes == 4
\* requests served concurrently
NumSlots == 2
\* requests received in one run
MaxRequests == 3
\* requests received in one run on notes created earlier
MaxNoteRequests == 4
\* settings.rate_limit
rate_limit == 2
\* settings.rate_limit_window_seconds
rate_limit_window_seconds == 2
\* settings.note_cache_ttl_seconds
note_cache_ttl_seconds == 2
\* settings.recent_notes_limit
recent_notes_limit == 2

\* request.client is None
NoPeer == 0
\* the client_ip used when request.client is None ("unknown")
Unknown == 0
\* a key without expiration (TTL -1)
NoExp == -1

Hosts == 1..NumHosts
Peers == Hosts \cup {NoPeer}
RateIps == Hosts \cup {Unknown}
NoteIds == 1..NumNotes

Min(a, b) == IF a < b THEN a ELSE b

VARIABLES
  now,             \* the store's clock, in seconds
  kv,              \* the key-value store: rate counters, recent lists, cache entries
  hist,            \* per client ip: the current fixed window and what happened in it
  viewed,          \* per client host: the identifiers pushed, in order, and when last
  puts,            \* per note id: the last cache operation on its key, and when
  last,            \* the last component call and its result
  db,              \* the notes table: per id no row (<<>>) or the row
  _redis_instance, \* redis_client._redis_instance
  _lock,           \* redis_client._lock: the request holding it, or 0
  made,            \* how many times redis.from_url has been called
  configured,      \* whether redis_dependency yields a client
  started,         \* requests received so far
  redis_up,        \* whether the store can be reached
  req              \* per request slot: the request in flight or the last one served

calls == <<hist, viewed, puts, last>>
app == <<db, _redis_instance, _lock, made, configured, started, redis_up, req>>
vars == <<now, kv, hist, viewed, puts, last, db, _redis_instance, _lock, made,
          configured, started, redis_up, req>>

(* ------------------------------------------------------------------ *)
(* The key-value store (redis) and its commands                        *)
(* ------------------------------------------------------------------ *)

\* no value under a key (a GET of it returns None)
NoData == <<>>

EmptyStore ==
  [rate   |-> [ip \in RateIps |-> [n |-> 0, exp |-> NoExp]],
   recent |-> [ip \in Hosts |-> [l |-> <<>>, exp |-> NoExp]],
   note   |-> [id \in NoteIds |-> [s |-> NoData, exp |-> NoExp]]]

\* one rate key for every client
_rate_limit_key_Shared(ip) == <<"rate", Unknown>>

_rate_limit_key(ip) == <<"rate", ip>>
_recent_key(ip) == <<"recent", ip>>
_note_cache_key(note_id) == <<"note", note_id>>

Entry(store, key) == store[key[1]][key[2]]

Exists(store, key) ==
  CASE key[1] = "rate"   -> Entry(store, key).n > 0
    [] key[1] = "recent" -> Len(Entry(store, key).l) > 0
    [] key[1] = "note"   -> Entry(store, key).s # NoData

\* INCR key 1: an absent key counts from 0 and is created without expiration
INCR(store, key) ==
  [store EXCEPT ![key[1]][key[2]].n = @ + 1]

\* EXPIRE key ttl [NX]: no effect on an absent key; with NX only when the key has
\* no expiration
EXPIRE(store, t, key, ttl, nx) ==
  IF ~Exists(store, key) THEN store
  ELSE IF nx /\ Entry(store, key).exp # NoExp THEN store
  ELSE [store EXCEPT ![key[1]][key[2]].exp = t + ttl]

(* ------------------------------------------------------------------ *)
(* rate_limit.py                                                       *)
(* ------------------------------------------------------------------ *)

\* a client handle: None, or the n-th client made by redis.from_url
None == 0
from_url(n) == n + 1
Redis == from_url(0)

client_ip(peer) == IF peer # NoPeer THEN peer ELSE Unknown

\* the pipeline of rate_limiter: INCR and EXPIRE NX in one MULTI/EXEC
RatePipelineNoNX(store, t, key) ==
  EXPIRE(INCR(store, key), t, key, rate_limit_window_seconds, FALSE)

RatePipelineNoExpire(store, t, key) ==
  INCR(store, key)

RatePipeline(store, t, key) ==
  EXPIRE(INCR(store, key), t, key, rate_limit_window_seconds, TRUE)

RateDecisionOffByOne(current_count) ==
  IF current_count # 0 /\ current_count >= rate_limit THEN "reject" ELSE "allow"

RateDecision(current_count) ==
  IF current_count # 0 /\ current_count > rate_limit THEN "reject" ELSE "allow"

\* rate_limiter(request, client): the store after it, the outcome ("allow",
\* "reject" = HTTP 429, "error" = an exception that is not caught) and the count
rate_limiter(store, t, peer, client, up) ==
  LET key == _rate_limit_key(client_ip(peer)) IN
  IF client = None
    THEN [kv |-> store, out |-> "error", count |-> 0]
  ELSE IF ~up
    THEN [kv |-> store, out |-> "allow", count |-> 0]
  ELSE LET after == RatePipeline(store, t, key)
           current_count == Entry(after, key).n
       IN [kv |-> after, out |-> RateDecision(current_count), count |-> current_count]

(* ------------------------------------------------------------------ *)
(* recent.py                                                           *)
(* ------------------------------------------------------------------ *)

\* a list element as the store holds it (the identifier's decimal text) and int(v)
ToBytes(note_id) == <<"b", note_id>>
int(v) == v[2]

RECURSIVE Without(_, _)
Without(l, v) ==
  IF l = <<>> THEN <<>>
  ELSE IF Head(l) = v THEN Without(Tail(l), v)
  ELSE <<Head(l)>> \o Without(Tail(l), v)

\* a list index as redis reads it: negative indexes count from the end
Index(i, len) == IF i < 0 THEN (IF len + i < 0 THEN 0 ELSE len + i) ELSE i

\* the elements start..stop (inclusive, zero-based) of a list
Range(l, start, stop) ==
  SubSeq(l, Index(start, Len(l)) + 1, Min(Index(stop, Len(l)) + 1, Len(l)))

\* a list that becomes empty is deleted, and its expiration with it
SetList(store, key, l) ==
  [store EXCEPT ![key[1]][key[2]] =
     IF l = <<>> THEN [l |-> <<>>, exp |-> NoExp] ELSE [l |-> l, exp |-> @.exp]]

\* LREM key 0 value: remove every occurrence
LREM(store, key, v) == SetList(store, key, Without(Entry(store, key).l, v))

LPUSHAtTail(store, key, v) == SetList(store, key, Entry(store, key).l \o <<v>>)

\* LPUSH key value
LPUSH(store, key, v) == SetList(store, key, <<v>> \o Entry(store, key).l)

\* LTRIM key start stop
LTRIM(store, key, start, stop) ==
  SetList(store, key, Range(Entry(store, key).l, start, stop))

\* LRANGE key start stop
LRANGE(store, key, start, stop) == Range(Entry(store, key).l, start, stop)

\* push_recent_note without its LREM
RecentPipelineNoLrem(store, t, key, note_id) ==
  LET s2 == LPUSH(store, key, ToBytes(note_id))
      s3 == LTRIM(s2, key, 0, recent_notes_limit - 1)
  IN EXPIRE(s3, t, key, rate_limit_window_seconds, FALSE)

\* push_recent_note that sets the expiration only when the list has none
RecentPipelineExpireNX(store, t, key, note_id) ==
  LET s1 == LREM(store, key, ToBytes(note_id))
      s2 == LPUSH(s1, key, ToBytes(note_id))
      s3 == LTRIM(s2, key, 0, recent_notes_limit - 1)
  IN EXPIRE(s3, t, key, rate_limit_window_seconds, TRUE)

\* the pipeline of push_recent_note, one MULTI/EXEC
RecentPipeline(store, t, key, note_id) ==
  LET s1 == LREM(store, key, ToBytes(note_id))
      s2 == LPUSH(s1, key, ToBytes(note_id))
      s3 == LTRIM(s2, key, 0, recent_notes_limit - 1)
  IN EXPIRE(s3, t, key, rate_limit_window_seconds, FALSE)

\* push_recent_note(client, ip, note_id): raises when the store cannot be reached
push_recent_note(store, t, ip, note_id, up) ==
  IF ~up THEN [kv |-> store, raised |-> TRUE]
  ELSE [kv |-> RecentPipeline(store, t, _recent_key(ip), note_id), raised |-> FALSE]

\* get_recent_notes(client, ip)
get_recent_notes(store, ip, up) ==
  IF ~up THEN [ret |-> <<>>, raised |-> TRUE]
  ELSE LET values == LRANGE(store, _recent_key(ip), 0, recent_notes_limit - 1)
       IN [ret |-> [i \in 1..Len(values) |-> int(values[i])], raised |-> FALSE]

(* ------------------------------------------------------------------ *)
(* schemas.py and cache.py                                             *)
(* ------------------------------------------------------------------ *)

\* an Optional value: <<>> is None, <<x>> is x
Some(x) == <<x>>

\* a datetime as ISO-8601 text, and back
isoformat(d) == <<"iso", d>>
fromisoformat(text) == text[2]

\* Note.model_dump_json() that writes deleted_at as null
model_dump_json_NoDeletedAt(note) ==
  <<"json",
    [id         |-> <<"num", note.id>>,
     title      |-> <<"str", note.title>>,
     content    |-> <<"str", note.content>>,
     tags       |-> IF note.tags = <<>> THEN <<"null">> ELSE <<"arr", note.tags[1]>>,
     created_at |-> <<"str", isoformat(note.created_at)>>,
     updated_at |-> <<"str", isoformat(note.updated_at)>>,
     is_deleted |-> <<"bool", note.is_deleted>>,
     deleted_at |-> <<"null">>]>>

\* Note.model_dump_json(): the JSON text of a Note, field by field
model_dump_json(note) ==
  <<"json",
    [id         |-> <<"num", note.id>>,
     title      |-> <<"str", note.title>>,
     content    |-> <<"str", note.content>>,
     tags       |-> IF note.tags = <<>> THEN <<"null">> ELSE <<"arr", note.tags[1]>>,
     created_at |-> <<"str", isoformat(note.created_at)>>,
     updated_at |-> <<"str", isoformat(note.updated_at)>>,
     is_deleted |-> <<"bool", note.is_deleted>>,
     deleted_at |-> IF note.deleted_at = <<>> THEN <<"null">>
                    ELSE <<"str", isoformat(note.deleted_at[1])>>]>>

IsDatetimeText(v) == v[1] = "str" /\ Len(v[2]) = 2 /\ v[2][1] = "iso"
IsText(v) == v[1] = "str" /\ Len(v[2]) # 2

\* the validation of Note(**payload): the field types and constraints of
\* NoteBase and Note
ValidPayload(payload) ==
  /\ payload.id[1] = "num"
  /\ IsText(payload.title) /\ payload.title[2] # ""
  /\ IsText(payload.content) /\ payload.content[2] # ""
  /\ payload.tags[1] \in {"null", "arr"}
  /\ IsDatetimeText(payload.created_at)
  /\ IsDatetimeText(payload.updated_at)
  /\ payload.is_deleted[1] = "bool"
  /\ payload.deleted_at[1] = "null" \/ IsDatetimeText(payload.deleted_at)

\* Note(**payload)
NoteOf(payload) ==
  [id         |-> payload.id[2],
   title      |-> payload.title[2],
   content    |-> payload.content[2],
   tags       |-> IF payload.tags[1] = "null" THEN <<>> ELSE Some(payload.tags[2]),
   created_at |-> fromisoformat(payload.created_at[2]),
   updated_at |-> fromisoformat(payload.updated_at[2]),
   is_deleted |-> payload.is_deleted[2],
   deleted_at |-> IF payload.deleted_at[1] = "null" THEN <<>>
                  ELSE Some(fromisoformat(payload.deleted_at[2]))]

\* GET key
GET(store, key) == Entry(store, key).s

\* SET key value EX ttl
SETEX(store, t, key, value, ttl) ==
  [store EXCEPT ![key[1]][key[2]] = [s |-> value, exp |-> t + ttl]]

\* DEL key
DEL(store, key) ==
  [store EXCEPT ![key[1]][key[2]] = [s |-> NoData, exp |-> NoExp]]

\* get_cached_note(client, note_id): the Note (or None), or the exception raised
get_cached_note(store, note_id, up) ==
  IF ~up THEN [ret |-> <<>>, raised |-> "RedisError"]
  ELSE LET data == GET(store, _note_cache_key(note_id)) IN
       IF data = NoData THEN [ret |-> <<>>, raised |-> ""]
       ELSE IF data[1] # "json" THEN [ret |-> <<>>, raised |-> "JSONDecodeError"]
       ELSE IF ~ValidPayload(data[2]) THEN [ret |-> <<>>, raised |-> "ValidationError"]
       ELSE [ret |-> Some(NoteOf(data[2])), raised |-> ""]

\* cache_note(client, note)
cache_note(store, t, note, up) ==
  IF ~up THEN [kv |-> store, raised |-> "RedisError"]
  ELSE [kv |-> SETEX(store, t, _note_cache_key(note.id), model_dump_json(note),
                     note_cache_ttl_seconds),
        raised |-> ""]

\* invalidate_note_cache(client, note_id)
invalidate_note_cache(store, note_id, up) ==
  IF ~up THEN [kv |-> store, raised |-> "RedisError"]
  ELSE [kv |-> DEL(store, _note_cache_key(note_id)), raised |-> ""]

(* ------------------------------------------------------------------ *)
(* Time: the store drops a key when its expiration is reached          *)
(* ------------------------------------------------------------------ *)

Purge(store, t) ==
  [rate   |-> [ip \in RateIps |->
                 IF store.rate[ip].exp # NoExp /\ store.rate[ip].exp <= t
                   THEN [n |-> 0, exp |-> NoExp] ELSE store.rate[ip]],
   recent |-> [ip \in Hosts |->
                 IF store.recent[ip].exp # NoExp /\ store.recent[ip].exp <= t
                   THEN [l |-> <<>>, exp |-> NoExp] ELSE store.recent[ip]],
   note   |-> [id \in NoteIds |->
                 IF store.note[id].exp # NoExp /\ store.note[id].exp <= t
                   THEN [s |-> NoData, exp |-> NoExp] ELSE store.note[id]]]

Tick ==
  /\ now < MaxTime
  /\ now' = now + 1
  /\ kv' = Purge(kv, now + 1)
  /\ UNCHANGED <<calls, app>>

(* ------------------------------------------------------------------ *)
(* The rate limiter called for a stream of requests                    *)
(* ------------------------------------------------------------------ *)

NoWindow == [first |-> NoExp, n |-> 0, allowed |-> 0]

\* the fixed window of a client: it starts with the first request that reaches the
\* store when no window is running and lasts rate_limit_window_seconds
InWindow(h, t) == h.first # NoExp /\ t < h.first + rate_limit_window_seconds

Account(h, t, out) ==
  IF InWindow(h, t)
    THEN [h EXCEPT !.n = @ + 1, !.allowed = @ + (IF out = "allow" THEN 1 ELSE 0)]
    ELSE [first |-> t, n |-> 1, allowed |-> IF out = "allow" THEN 1 ELSE 0]

Idle == [op |-> "none"]

CallRateLimiter ==
  \E peer \in Peers, up \in BOOLEAN :
    LET ip == client_ip(peer)
        r  == rate_limiter(kv, now, peer, Redis, up)
    IN /\ kv.rate[ip].n < MaxHits
       /\ kv' = r.kv
       /\ hist' = IF up THEN [hist EXCEPT ![ip] = Account(@, now, r.out)] ELSE hist
       /\ last' = [op |-> "rate_limiter", ip |-> ip, t |-> now, up |-> up,
                   out |-> r.out, count |-> r.count,
                   fresh |-> ~InWindow(hist[ip], now),
                   limited |-> hist[ip].allowed < hist[ip].n]
       /\ UNCHANGED <<now, viewed, puts, app>>

NoViews == [log |-> <<>>, at |-> NoExp]

NoPut == [st |-> "none", note |-> <<>>, at |-> NoExp]

Slots == 1..NumSlots

NoRequest ==
  [pc |-> "done", kind |-> "none", peer |-> NoPeer, note_id |-> 1,
   use_cache |-> FALSE, include_deleted |-> FALSE,
   client |-> None, status |-> 0, resp |-> <<>>, ids |-> <<>>]

InitAny ==
  /\ now = 0
  /\ kv = EmptyStore
  /\ hist = [ip \in RateIps |-> NoWindow]
  /\ viewed = [ip \in Hosts |-> NoViews]
  /\ puts = [id \in NoteIds |-> NoPut]
  /\ last = Idle
  /\ db = [id \in NoteIds |-> <<>>]
  /\ _redis_instance = None
  /\ _lock = 0
  /\ made = 0
  /\ configured \in BOOLEAN
  /\ started = 0
  /\ redis_up = TRUE
  /\ req = [s \in Slots |-> NoRequest]

Init == InitAny /\ configured

NextRate == CallRateLimiter \/ Tick

SpecRate == Init /\ [][NextRate]_vars

(* ------------------------------------------------------------------ *)
(* The recent list driven by pushes and reads                          *)
(* ------------------------------------------------------------------ *)

ViewIds == 1..MaxViewId

\* the pushes made since the list last lapsed: a list not pushed to for
\* rate_limit_window_seconds is gone
Running(v, t) == v.at # NoExp /\ t < v.at + rate_limit_window_seconds

Logged(v, t, note_id) ==
  [log |-> IF Running(v, t) THEN Append(v.log, note_id) ELSE <<note_id>>, at |-> t]

CallPushRecent ==
  \E ip \in Hosts, note_id \in ViewIds, up \in BOOLEAN :
    LET r == push_recent_note(kv, now, ip, note_id, up) IN
    /\ Running(viewed[ip], now) => Len(viewed[ip].log) < MaxPushes
    /\ kv' = r.kv
    /\ viewed' = IF up THEN [viewed EXCEPT ![ip] = Logged(@, now, note_id)] ELSE viewed
    /\ last' = [op |-> "push_recent_note", ip |-> ip, note_id |-> note_id,
                raised |-> r.raised]
    /\ UNCHANGED <<now, hist, puts, app>>

CallGetRecent ==
  \E ip \in Hosts, up \in BOOLEAN :
    LET r == get_recent_notes(kv, ip, up) IN
    /\ last' = [op |-> "get_recent_notes", ip |-> ip, ret |-> r.ret,
                raised |-> r.raised]
    /\ UNCHANGED <<now, kv, hist, viewed, puts, app>>

NextRecent == CallPushRecent \/ CallGetRecent \/ Tick

SpecRecent == Init /\ [][NextRecent]_vars

(* ------------------------------------------------------------------ *)
(* redis_client.py                                                     *)
(* ------------------------------------------------------------------ *)

\* get_redis inside the lock, without the second test of _redis_instance
get_redis_locked_NoSecondTest(instance, n) ==
  [instance |-> from_url(n), made |-> n + 1]

\* get_redis inside the lock: the second test, and the construction
get_redis_locked(instance, n) ==
  IF instance = None
    THEN [instance |-> from_url(n), made |-> n + 1]
    ELSE [instance |-> instance, made |-> n]

(* ------------------------------------------------------------------ *)
(* crud.py                                                             *)
(* ------------------------------------------------------------------ *)

Rows(table) == {id \in NoteIds : table[id] # <<>>}

\* create_note(db, note_in): the table after it and the row
create_note(table, t, tags) ==
  LET id  == Cardinality(Rows(table)) + 1
      row == [id |-> id, title |-> "title", content |-> "content",
              tags |-> IF tags = <<>> THEN Some(<<>>) ELSE tags,
              created_at |-> t, updated_at |-> t,
              is_deleted |-> FALSE, deleted_at |-> <<>>]
  IN [db |-> [table EXCEPT ![id] = Some(row)], note |-> row]

\* get_note(db, note_id, include_deleted): <<>> or the row
get_note(table, note_id, include_deleted) ==
  IF table[note_id] = <<>> THEN <<>>
  ELSE IF ~include_deleted /\ table[note_id][1].is_deleted THEN <<>>
  ELSE table[note_id]

\* list_notes(db, include_deleted): the rows selected
list_notes(table, include_deleted) ==
  {table[id][1] : id \in {i \in Rows(table) : include_deleted \/ ~table[i][1].is_deleted}}

\* the orders ORDER BY created_at DESC can return the rows in
Ordered(rows) ==
  {q \in [1..Cardinality(rows) -> rows] :
     /\ \A i, j \in 1..Cardinality(rows) : i # j => q[i] # q[j]
     /\ \A i, j \in 1..Cardinality(rows) : i < j => q[i].created_at >= q[j].created_at}

\* soft_delete_note(db, note)
soft_delete_note(table, t, note) ==
  LET row == [note EXCEPT !.is_deleted = TRUE, !.deleted_at = Some(t), !.updated_at = t]
  IN [db |-> [table EXCEPT ![note.id] = Some(row)], note |-> row]

\* schemas.Note.model_validate(note): the schema object of a row
model_validate(row) ==
  [id |-> row.id, title |-> row.title, content |-> row.content, tags |-> row.tags,
   created_at |-> row.created_at, updated_at |-> row.updated_at,
   is_deleted |-> row.is_deleted, deleted_at |-> row.deleted_at]

(* ------------------------------------------------------------------ *)
(* main.py: the _safe_ wrappers                                        *)
(* ------------------------------------------------------------------ *)

_safe_cache_note(store, t, client, note, up) ==
  IF client = None THEN store ELSE cache_note(store, t, note, up).kv

\* _safe_get_cached_note that catches nothing
_safe_get_cached_note_NoExcept(store, client, note_id, up) ==
  IF client = None THEN [ret |-> <<>>, raised |-> ""]
  ELSE get_cached_note(store, note_id, up)

\* only redis.RedisError is caught; any other exception leaves the wrapper
_safe_get_cached_note(store, client, note_id, up) ==
  IF client = None THEN [ret |-> <<>>, raised |-> ""]
  ELSE LET r == get_cached_note(store, note_id, up) IN
       IF r.raised = "RedisError" THEN [ret |-> <<>>, raised |-> ""] ELSE r

_safe_invalidate_cache(store, client, note_id, up) ==
  IF client = None THEN store ELSE invalidate_note_cache(store, note_id, up).kv

_safe_push_recent(store, t, client, peer, note_id, up) ==
  IF client = None THEN store
  ELSE IF peer = NoPeer THEN store
  ELSE push_recent_note(store, t, peer, note_id, up).kv

_safe_get_recent(store, client, peer, up) ==
  IF client = None \/ peer = NoPeer THEN <<>>
  ELSE get_recent_notes(store, peer, up).ret

(* ------------------------------------------------------------------ *)
(* The record cache driven by puts, gets and invalidations             *)
(* ------------------------------------------------------------------ *)

TagLists == {<<>>, Some(<<"work">>)}

\* the Note snapshots a handler can hold at time t
NoteValues(t) ==
  {[id |-> id, title |-> "title", content |-> "content", tags |-> tags,
    created_at |-> c, updated_at |-> c, is_deleted |-> d # <<>>, deleted_at |-> d] :
      id \in NoteIds, tags \in TagLists, c \in {t}, d \in {<<>>, Some(t)}}

\* values under a note key that are not the JSON text of a Note: bytes that are
\* not JSON, and a JSON object whose id is null
Malformed ==
  {<<"garbage">>} \cup
  {<<"json", [model_dump_json(n)[2] EXCEPT !.id = <<"null">>]>> :
     n \in {m \in NoteValues(0) : m.id = 1 /\ m.tags = <<>> /\ ~m.is_deleted}}

CallCacheNote ==
  \E note \in NoteValues(now), up \in BOOLEAN :
    LET r == cache_note(kv, now, note, up) IN
    /\ kv' = r.kv
    /\ puts' = IF up THEN [puts EXCEPT ![note.id] =
                             [st |-> "put", note |-> Some(note), at |-> now]]
                ELSE puts
    /\ last' = [op |-> "cache_note", note_id |-> note.id, raised |-> r.raised]
    /\ UNCHANGED <<now, hist, viewed, app>>

\* the cache get of read_note: get_cached_note under _safe_get_cached_note
CallGetCachedNote ==
  \E note_id \in NoteIds, up \in BOOLEAN :
    LET r == _safe_get_cached_note(kv, Redis, note_id, up) IN
    /\ last' = [op |-> "get_cached_note", note_id |-> note_id, ret |-> r.ret,
                raised |-> r.raised,
                malformed |-> up /\ puts[note_id].st = "foreign"
                                 /\ Exists(kv, _note_cache_key(note_id))]
    /\ UNCHANGED <<now, kv, hist, viewed, puts, app>>

CallInvalidate ==
  \E note_id \in NoteIds, up \in BOOLEAN :
    LET r == invalidate_note_cache(kv, note_id, up) IN
    /\ kv' = r.kv
    /\ puts' = IF up THEN [puts EXCEPT ![note_id] =
                             [st |-> "invalidated", note |-> <<>>, at |-> now]]
                ELSE puts
    /\ last' = [op |-> "invalidate_note_cache", note_id |-> note_id,
                raised |-> r.raised]
    /\ UNCHANGED <<now, hist, viewed, app>>

\* another writer of the shared store leaves a value that is not a serialized Note
ForeignWrite ==
  \E note_id \in NoteIds, data \in Malformed :
    /\ kv' = SETEX(kv, now, _note_cache_key(note_id), data, note_cache_ttl_seconds)
    /\ puts' = [puts EXCEPT ![note_id] = [st |-> "foreign", note |-> <<>>, at |-> now]]
    /\ last' = [op |-> "foreign"]
    /\ UNCHANGED <<now, hist, viewed, app>>

NextCache == CallCacheNote \/ CallGetCachedNote \/ CallInvalidate \/ ForeignWrite \/ Tick

SpecCache == Init /\ [][NextCache]_vars

(* ------------------------------------------------------------------ *)
(* main.py: the requests                                               *)
(* ------------------------------------------------------------------ *)

Input(kind, peer, note_id, use_cache, include_deleted) ==
  [kind |-> kind, peer |-> peer, note_id |-> note_id, use_cache |-> use_cache,
   include_deleted |-> include_deleted]

Inputs ==
  {Input("create", p, 1, FALSE, FALSE) : p \in Peers} \cup
  {Input("list", p, 1, FALSE, i) : p \in Peers, i \in BOOLEAN} \cup
  {Input("recent", p, 1, FALSE, FALSE) : p \in Peers} \cup
  {Input("read", p, n, u, i) :
     p \in Peers, n \in NoteIds, u \in BOOLEAN, i \in BOOLEAN} \cup
  {Input("delete", p, n, FALSE, FALSE) : p \in Peers, n \in NoteIds}

\* the creates that have not inserted their row yet
Creating == {s \in Slots : req[s].kind = "create" /\ req[s].pc \in
                            {"get_redis", "lock", "locked", "rate", "create_db"}}

\* a request arrives; redis_dependency is resolved first
Arrive(s, inputs) ==
  \E in \in inputs :
    /\ req[s].pc = "done"
    /\ in.kind = "create" =>
         Cardinality(Rows(db)) + Cardinality(Creating) < NumNotes
    /\ started' = started + 1
    /\ req' = [req EXCEPT ![s] =
         [pc |-> IF configured THEN "get_redis" ELSE "rate",
          kind |-> in.kind, peer |-> in.peer, note_id |-> in.note_id,
          use_cache |-> in.use_cache, include_deleted |-> in.include_deleted,
          client |-> None, status |-> 0, resp |-> <<>>, ids |-> <<>>]]
    /\ UNCHANGED <<now, kv, calls, db, _redis_instance, _lock, made, configured,
                   redis_up>>

\* get_redis: the first test of _redis_instance
GetRedisTest(s) ==
  /\ req[s].pc = "get_redis"
  /\ req' = [req EXCEPT ![s] =
       IF _redis_instance = None THEN [@ EXCEPT !.pc = "lock"]
       ELSE [@ EXCEPT !.pc = "rate", !.client = _redis_instance]]
  /\ UNCHANGED <<now, kv, calls, db, _redis_instance, _lock, made, configured,
                 started, redis_up>>

\* get_redis: async with _lock, entered when the lock is free
GetRedisAcquire(s) ==
  /\ req[s].pc = "lock"
  /\ _lock = 0
  /\ _lock' = s
  /\ req' = [req EXCEPT ![s].pc = "locked"]
  /\ UNCHANGED <<now, kv, calls, db, _redis_instance, made, configured, started,
                 redis_up>>

\* get_redis: the body of the lock, its release and the return
GetRedisLocked(s) ==
  LET r == get_redis_locked(_redis_instance, made) IN
  /\ req[s].pc = "locked"
  /\ _redis_instance' = r.instance
  /\ made' = r.made
  /\ _lock' = 0
  /\ req' = [req EXCEPT ![s].pc = "rate", ![s].client = r.instance]
  /\ UNCHANGED <<now, kv, calls, db, configured, started, redis_up>>

\* the request is answered: the slot keeps the status, not the handler's locals
Finish(r, status) == [NoRequest EXCEPT !.status = status]

AfterLimiter(r) ==
  CASE r.kind = "create" -> "create_db"
    [] r.kind = "list"   -> "list_db"
    [] r.kind = "recent" -> "recent_kv"
    [] r.kind = "read"   -> IF r.use_cache THEN "read_cache" ELSE "read_db"
    [] r.kind = "delete" -> "delete_db"

\* the steps of a request that issue a store command: the store and the request
\* after the step

\* a route that takes no notice of the limiter's 429
rate_step_NoReject(r, store, t, up) ==
  LET l == rate_limiter(store, t, r.peer, r.client, up) IN
  [kv  |-> l.kv,
   req |-> IF l.out = "error" THEN Finish(r, 500)
           ELSE [r EXCEPT !.pc = AfterLimiter(r)]]

\* the rate_limiter dependency of every route
rate_step(r, store, t, up) ==
  LET l == rate_limiter(store, t, r.peer, r.client, up) IN
  [kv  |-> l.kv,
   req |-> CASE l.out = "error"  -> Finish(r, 500)
             [] l.out = "reject" -> Finish(r, 429)
             [] l.out = "allow"  -> [r EXCEPT !.pc = AfterLimiter(r)]]

\* create_note: _safe_cache_note and the response
create_cache_step(r, store, t, up) ==
  [kv  |-> _safe_cache_note(store, t, r.client, r.resp[1], up),
   req |-> Finish(r, 201)]

\* recent_notes: _safe_get_recent
recent_kv_step(r, store, t, up) ==
  [kv  |-> store,
   req |-> [r EXCEPT !.pc = "recent_db",
                     !.ids = _safe_get_recent(store, r.client, r.peer, up)]]

\* read_note: _safe_get_cached_note, and the return of a hit
read_cache_step(r, store, t, up) ==
  LET c == _safe_get_cached_note(store, r.client, r.note_id, up) IN
  [kv  |-> store,
   req |-> IF c.raised # "" THEN Finish(r, 500)
           ELSE IF c.ret # <<>> THEN [r EXCEPT !.pc = "read_push", !.resp = c.ret]
           ELSE [r EXCEPT !.pc = "read_db"]]

\* read_note: _safe_cache_note
read_put_step(r, store, t, up) ==
  [kv  |-> _safe_cache_note(store, t, r.client, r.resp[1], up),
   req |-> [r EXCEPT !.pc = "read_push"]]

\* read_note: _safe_push_recent and the response
read_push_step(r, store, t, up) ==
  [kv  |-> _safe_push_recent(store, t, r.client, r.peer, r.note_id, up),
   req |-> Finish(r, 200)]

\* delete_note: _safe_invalidate_cache and the response
delete_cache_step(r, store, t, up) ==
  [kv  |-> _safe_invalidate_cache(store, r.client, r.note_id, up),
   req |-> Finish(r, 200)]

StorePcs == {"rate", "create_cache", "recent_kv", "read_cache", "read_put",
             "read_push", "delete_cache"}

StoreStep(r, store, t, up) ==
  CASE r.pc = "rate"         -> rate_step(r, store, t, up)
    [] r.pc = "create_cache" -> create_cache_step(r, store, t, up)
    [] r.pc = "recent_kv"    -> recent_kv_step(r, store, t, up)
    [] r.pc = "read_cache"   -> read_cache_step(r, store, t, up)
    [] r.pc = "read_put"     -> read_put_step(r, store, t, up)
    [] r.pc = "read_push"    -> read_push_step(r, store, t, up)
    [] r.pc = "delete_cache" -> delete_cache_step(r, store, t, up)

AtStore(s) ==
  /\ kv' = StoreStep(req[s], kv, now, redis_up).kv
  /\ req' = [req EXCEPT ![s] = StoreStep(req[s], kv, now, redis_up).req]
  /\ UNCHANGED <<now, calls, db, _redis_instance, _lock, made, configured, started,
                 redis_up>>

RateLimit(s) == req[s].pc = "rate" /\ AtStore(s)
CreateCache(s) == req[s].pc = "create_cache" /\ AtStore(s)
RecentKv(s) == req[s].pc = "recent_kv" /\ AtStore(s)
ReadCache(s) == req[s].pc = "read_cache" /\ AtStore(s)
ReadPut(s) == req[s].pc = "read_put" /\ AtStore(s)
ReadPush(s) == req[s].pc = "read_push" /\ AtStore(s)
DeleteCache(s) == req[s].pc = "delete_cache" /\ AtStore(s)

\* create_note: crud.create_note and model_validate
CreateDb(s) ==
  LET c == create_note(db, now, Some(<<"work">>)) IN
  /\ req[s].pc = "create_db"
  /\ db' = c.db
  /\ req' = [req EXCEPT ![s].pc = "create_cache",
                         ![s].resp = Some(model_validate(c.note))]
  /\ UNCHANGED <<now, kv, calls, _redis_instance, _lock, made, configured, started,
                 redis_up>>

\* list_notes
ListDb(s) ==
  \E items \in Ordered({model_validate(n) :
                          n \in list_notes(db, req[s].include_deleted)}) :
    /\ req[s].pc = "list_db"
    /\ req' = [req EXCEPT ![s] = Finish([req[s] EXCEPT !.resp = items], 200)]
    /\ UNCHANGED <<now, kv, calls, db, _redis_instance, _lock, made, configured,
                   started, redis_up>>

\* the loop of recent_notes without the filter on is_deleted
RECURSIVE Found_IncludeDeleted(_, _)
Found_IncludeDeleted(table, note_ids) ==
  IF note_ids = <<>> THEN <<>>
  ELSE LET note == get_note(table, Head(note_ids), TRUE) IN
       (IF note # <<>> THEN <<model_validate(note[1])>> ELSE <<>>)
         \o Found_IncludeDeleted(table, Tail(note_ids))

RECURSIVE Found(_, _)
Found(table, note_ids) ==
  IF note_ids = <<>> THEN <<>>
  ELSE LET note == get_note(table, Head(note_ids), FALSE) IN
       (IF note # <<>> THEN <<model_validate(note[1])>> ELSE <<>>)
         \o Found(table, Tail(note_ids))

\* recent_notes: the loop over note_ids and the response
RecentDb(s) ==
  /\ req[s].pc = "recent_db"
  /\ req' = [req EXCEPT ![s] =
       Finish([req[s] EXCEPT !.resp = Found(db, req[s].ids)], 200)]
  /\ UNCHANGED <<now, kv, calls, db, _redis_instance, _lock, made, configured,
                 started, redis_up>>

\* read_note: crud.get_note, the 404 and model_validate
ReadDb(s) ==
  LET note == get_note(db, req[s].note_id, req[s].include_deleted) IN
  /\ req[s].pc = "read_db"
  /\ req' = [req EXCEPT ![s] =
       IF note = <<>> THEN Finish(@, 404)
       ELSE [@ EXCEPT !.pc = "read_put", !.resp = Some(model_validate(note[1]))]]
  /\ UNCHANGED <<now, kv, calls, db, _redis_instance, _lock, made, configured,
                 started, redis_up>>

\* delete_note: crud.get_note, the 404 and crud.soft_delete_note
DeleteDb(s) ==
  LET note == get_note(db, req[s].note_id, TRUE) IN
  /\ req[s].pc = "delete_db"
  /\ db' = IF note = <<>> \/ note[1].is_deleted THEN db
            ELSE soft_delete_note(db, now, note[1]).db
  /\ req' = [req EXCEPT ![s] =
       IF note = <<>> \/ note[1].is_deleted THEN Finish(@, 404)
       ELSE [@ EXCEPT !.pc = "delete_cache",
                      !.resp = Some(model_validate(soft_delete_note(db, now, note[1]).note))]]
  /\ UNCHANGED <<now, kv, calls, _redis_instance, _lock, made, configured, started,
                 redis_up>>

\* the store becomes unreachable (every command raises redis.RedisError), or
\* reachable again
StoreFails ==
  /\ redis_up
  /\ redis_up' = FALSE
  /\ UNCHANGED <<now, kv, calls, db, _redis_instance, _lock, made, configured,
                 started, req>>

StoreRecovers ==
  /\ ~redis_up
  /\ redis_up' = TRUE
  /\ UNCHANGED <<now, kv, calls, db, _redis_instance, _lock, made, configured,
                 started, req>>

Start(s) == started < MaxRequests /\ Arrive(s, Inputs)

Step(s) ==
  \/ Start(s)
  \/ GetRedisTest(s)
  \/ GetRedisAcquire(s)
  \/ GetRedisLocked(s)
  \/ RateLimit(s)
  \/ CreateDb(s)
  \/ CreateCache(s)
  \/ ListDb(s)
  \/ RecentKv(s)
  \/ RecentDb(s)
  \/ ReadCache(s)
  \/ ReadDb(s)
  \/ ReadPut(s)
  \/ ReadPush(s)
  \/ DeleteDb(s)
  \/ DeleteCache(s)

\* the requests of one run, served while no key expires: the expirations are
\* followed in SpecRate, SpecRecent, SpecCache and SpecClient
Next == (\E s \in Slots : Step(s)) \/ StoreFails \/ StoreRecovers

Spec == Init /\ [][Next]_vars

\* list requests only, with the clock: the shared client and the rate limiter
StartList(s) == started < MaxRequests /\ Arrive(s, {in \in Inputs : in.kind = "list"})

StepClient(s) ==
  \/ StartList(s)
  \/ GetRedisTest(s)
  \/ GetRedisAcquire(s)
  \/ GetRedisLocked(s)
  \/ RateLimit(s)
  \/ ListDb(s)

NextClient == (\E s \in Slots : StepClient(s)) \/ StoreFails \/ StoreRecovers \/ Tick

SpecClient == Init /\ [][NextClient]_vars

\* the same, in a deployment with or without a configured client
SpecAnyClient == InitAny /\ [][NextClient]_vars

(* ------------------------------------------------------------------ *)
(* Claims about the rate limiter                                       *)
(* ------------------------------------------------------------------ *)

\* C1: with the store reachable, after N requests of a client inside its window
\* the client's counter equals N and exactly min(N, rate_limit) of them were
\* allowed; a request is rejected iff its post-increment count exceeds rate_limit.
C1_CounterCountsRequests ==
  /\ \A ip \in RateIps :
       InWindow(hist[ip], now) =>
         /\ kv.rate[ip].n = hist[ip].n
         /\ hist[ip].allowed = Min(hist[ip].n, rate_limit)
  /\ (last.op = "rate_limiter" /\ last.up) =>
       /\ last.count >= 1
       /\ (last.out = "reject") <=> (last.count > rate_limit)

\* a window in which more requests arrived than the limit, the last one rejected
C1_Witness ==
  /\ last.op = "rate_limiter" /\ last.up /\ last.out = "reject"
  /\ InWindow(hist[last.ip], now)
  /\ hist[last.ip].n > rate_limit
  /\ hist[last.ip].allowed = rate_limit

\* C2: the expiration of a rate counter is set by the first increment of a window
\* (to the window length) and no later increment of that counter changes it.
C2_ExpiryNotExtended ==
  [][\A ip \in RateIps :
       /\ (kv.rate[ip].n = 0 /\ kv'.rate[ip].n > 0) =>
            kv'.rate[ip].exp = now + rate_limit_window_seconds
       /\ (kv.rate[ip].n > 0 /\ kv'.rate[ip].n > kv.rate[ip].n) =>
            kv'.rate[ip].exp = kv.rate[ip].exp]_vars

\* a second increment made later than the first: the remaining TTL is shorter than
\* the window right after it
C2_Witness ==
  /\ last.op = "rate_limiter" /\ last.up /\ last.count >= 2
  /\ last.t = now
  /\ kv.rate[last.ip].exp - now < rate_limit_window_seconds

\* C3: the first request after the window that began with the client's first
\* request has elapsed sees a count of 1 and is allowed, whatever the client sent
\* during that window.
C3_AllowedAfterWindow ==
  (last.op = "rate_limiter" /\ last.up /\ last.fresh) =>
    (last.count = 1 /\ last.out = "allow")

\* a client that was rejected in its previous window and is allowed in a new one
C3_Witness ==
  /\ last.op = "rate_limiter" /\ last.up /\ last.fresh /\ last.limited
  /\ last.out = "allow"

(* ------------------------------------------------------------------ *)
(* Claims about the recent list                                        *)
(* ------------------------------------------------------------------ *)

NoDuplicates(l) == \A i, j \in 1..Len(l) : i # j => l[i] # l[j]

RecentBounded ==
  \A ip \in Hosts :
    /\ Len(kv.recent[ip].l) <= recent_notes_limit
    /\ NoDuplicates(kv.recent[ip].l)

\* a push of v reached the list before: v is at the front of after, the length
\* is the same and the other elements keep their order
MovedToFront(before, after, v) ==
  \A k \in 1..Len(before) :
    before[k] = v =>
      /\ Len(after) = Len(before)
      /\ after[1] = v
      /\ \A i \in 1..Len(before) :
           /\ i < k => after[i + 1] = before[i]
           /\ i > k => after[i] = before[i]

\* C5: every recent list holds no identifier twice and at most recent_notes_limit
\* identifiers, after any pushes in any order; a push of an identifier already in
\* the list moves it to the front and leaves the length unchanged.
C5_RecentBoundedNoDuplicates ==
  /\ []RecentBounded
  /\ [][\A ip \in Hosts :
          viewed'[ip] # viewed[ip] =>
            MovedToFront(kv.recent[ip].l, kv'.recent[ip].l,
                         ToBytes(viewed'[ip].log[Len(viewed'[ip].log)]))]_vars

\* a full list whose second element was pushed again and is now at the front
C5_Witness ==
  \E ip \in Hosts :
    LET log == viewed[ip].log
        n   == Len(log)
    IN /\ last.op = "push_recent_note" /\ ~last.raised /\ last.ip = ip
       /\ n >= 3 /\ log[n] = log[n - 2] /\ log[n - 1] # log[n]
       /\ Len(kv.recent[ip].l) = recent_notes_limit
       /\ kv.recent[ip].l[1] = ToBytes(log[n])
       /\ kv.recent[ip].l[2] = ToBytes(log[n - 1])

\* the distinct identifiers of a push log, most recently pushed first
RECURSIVE MostRecentFirst(_)
MostRecentFirst(log) ==
  IF log = <<>> THEN <<>>
  ELSE LET x == log[Len(log)]
           earlier == MostRecentFirst(SubSeq(log, 1, Len(log) - 1))
       IN <<x>> \o SelectSeq(earlier, LAMBDA y : y # x)

Take(l, n) == SubSeq(l, 1, Min(n, Len(l)))

\* C6: while a client's list has not lapsed, the list returned for the client is
\* the distinct pushed identifiers, most recently pushed first, cut to
\* recent_notes_limit.
C6_RecentIsMostRecentFirst ==
  \A ip \in Hosts :
    Running(viewed[ip], now) =>
      get_recent_notes(kv, ip, TRUE).ret =
        Take(MostRecentFirst(viewed[ip].log), recent_notes_limit)

\* more distinct identifiers pushed than the list holds, one of them twice
C6_Witness ==
  \E ip \in Hosts :
    LET log == viewed[ip].log
        ids == {log[i] : i \in 1..Len(log)}
    IN /\ Running(viewed[ip], now)
       /\ Cardinality(ids) > recent_notes_limit
       /\ Len(log) > Cardinality(ids)
       /\ Len(get_recent_notes(kv, ip, TRUE).ret) = recent_notes_limit

(* ------------------------------------------------------------------ *)
(* Claims about the record cache                                       *)
(* ------------------------------------------------------------------ *)

\* C7: a get of a note's key after a put of the note, before the TTL elapses and
\* with no other operation on the key, returns a Note equal to the original in
\* every field; a get after an invalidate returns None; an invalidate of an absent
\* key changes nothing.
C7_CacheRoundTrip ==
  /\ [](\A note_id \in NoteIds :
          /\ (puts[note_id].st = "put" /\ now < puts[note_id].at + note_cache_ttl_seconds)
               => get_cached_note(kv, note_id, TRUE) =
                    [ret |-> puts[note_id].note, raised |-> ""]
          /\ puts[note_id].st = "invalidated"
               => get_cached_note(kv, note_id, TRUE) = [ret |-> <<>>, raised |-> ""])
  /\ [][(/\ now' = now
          /\ last'.op = "invalidate_note_cache"
          /\ ~Exists(kv, _note_cache_key(last'.note_id))) => kv' = kv]_vars

\* a soft-deleted note with tags, put a second ago, was read back as it was put
C7_Witness ==
  \E note_id \in NoteIds :
    /\ puts[note_id].st = "put" /\ puts[note_id].at < now
    /\ now < puts[note_id].at + note_cache_ttl_seconds
    /\ puts[note_id].note[1].is_deleted /\ puts[note_id].note[1].tags # <<>>
    /\ last.op = "get_cached_note" /\ last.note_id = note_id
    /\ last.ret = puts[note_id].note

\* C8: a cache get of a key whose value cannot be deserialized into a Note is a
\* miss: it returns None to read_note and no exception leaves it.
C8_MalformedIsMiss ==
  (last.op = "get_cached_note" /\ last.malformed) =>
    (last.ret = <<>> /\ last.raised = "")

(* ------------------------------------------------------------------ *)
(* Claims about the degradation policy and the shared client           *)
(* ------------------------------------------------------------------ *)

\* C4: while the store cannot be reached, every store step of every request leaves
\* the store as it is and leaves the request as the same step does with a working,
\* empty store: the limiter allows, the cache get misses, the recent list is
\* empty, the put, the invalidation and the push are skipped; no request is
\* answered 429 or 500.
C4_FailOpen ==
  [][\A s \in Slots :
       (~redis_up /\ req[s].pc \in StorePcs /\ req'[s] # req[s]) =>
         /\ kv' = kv
         /\ req'[s] = StoreStep(req[s], EmptyStore, now, TRUE).req
         /\ req'[s].status \notin {429, 500}]_vars

\* no command has ever reached the store, and a read that asked the cache is about
\* to answer with the row it found in the table
C4_Witness ==
  /\ ~redis_up /\ kv = EmptyStore
  /\ \E s \in Slots :
       /\ req[s].kind = "read" /\ req[s].use_cache
       /\ req[s].pc = "read_push" /\ req[s].resp # <<>>

\* C9: without a configured client every store step of a request leaves the store
\* as it is and leaves the request as the same step does when the store cannot
\* be reached; no request fails.
C9_AbsentClientDegrades ==
  [][\A s \in Slots :
       (~configured /\ req[s].pc \in StorePcs /\ req'[s] # req[s]) =>
         /\ kv' = kv
         /\ req'[s] = StoreStep([req[s] EXCEPT !.client = Redis], kv, now, FALSE).req
         /\ req'[s].status # 500]_vars

\* C10: redis.from_url is called at most once, and every request that has
\* resolved its client holds the one instance it made.
C10_ClientMadeOnce ==
  /\ made <= 1
  /\ _redis_instance # None => (made = 1 /\ _redis_instance = Redis)
  /\ \A s \in Slots :
       (req[s].pc \notin {"done", "get_redis", "lock", "locked"}) =>
         req[s].client = _redis_instance /\ req[s].client # None

\* a request that found no instance holds the lock after another request made the
\* instance and went on with it
C10_Witness ==
  \E s, o \in Slots :
    /\ req[s].pc = "locked" /\ _lock = s
    /\ _redis_instance = Redis
    /\ req[o].pc = "rate" /\ req[o].client = Redis

(* ------------------------------------------------------------------ *)
(* Batches that fail: client.pipeline() is a transaction (MULTI/EXEC)  *)
(* ------------------------------------------------------------------ *)

\* a pipeline sent without MULTI/EXEC: a failure leaves any prefix applied
execute_failing_NoTransaction(n) == 0..n

\* pipe.execute() of n queued commands that raises redis.RedisError: how many of
\* them the store has applied. The batch is one MULTI/EXEC: it is lost before
\* EXEC, or the connection drops after EXEC and only the reply is lost.
execute_failing(n) == {0, n}

\* the first k commands of the batch of rate_limiter
RateBatch(store, t, key, k) ==
  CASE k = 0 -> store
    [] k = 1 -> INCR(store, key)
    [] k = 2 -> RatePipeline(store, t, key)

\* a rate_limiter call whose pipe.execute() raises: the request is allowed
CallRateLimiterFailing ==
  \E peer \in Peers, k \in execute_failing(2) :
    LET ip == client_ip(peer) IN
    /\ kv.rate[ip].n < MaxHits
    /\ kv' = RateBatch(kv, now, _rate_limit_key(ip), k)
    /\ hist' = IF k = 2 THEN [hist EXCEPT ![ip] = Account(@, now, "allow")] ELSE hist
    /\ last' = [op |-> "rate_limiter", ip |-> ip, t |-> now, up |-> FALSE,
                out |-> "allow", count |-> 0,
                fresh |-> ~InWindow(hist[ip], now),
                limited |-> hist[ip].allowed < hist[ip].n]
    /\ UNCHANGED <<now, viewed, puts, app>>

NextRateBatch == CallRateLimiter \/ CallRateLimiterFailing \/ Tick

SpecRateBatch == Init /\ [][NextRateBatch]_vars

\* C11: a rate counter exists in the store iff it has an expiration, in every
\* reachable state, and every change of a counter by a request is the whole
\* batch (increment and conditional expire), also when execute() fails.
C11_CounterHasExpiry ==
  /\ [](\A ip \in RateIps : (kv.rate[ip].n > 0) <=> (kv.rate[ip].exp # NoExp))
  /\ [][\A ip \in RateIps :
          (now' = now /\ kv'.rate[ip] # kv.rate[ip]) =>
            kv' = RatePipeline(kv, now, _rate_limit_key(ip))]_vars

\* a counter created by a call whose execute() raised after the batch was applied
C11_Witness ==
  /\ last.op = "rate_limiter" /\ ~last.up /\ last.fresh /\ last.t = now
  /\ kv.rate[last.ip].n = 1
  /\ kv.rate[last.ip].exp = now + rate_limit_window_seconds

\* the first k commands of the batch of push_recent_note
RecentBatch(store, t, key, note_id, k) ==
  CASE k = 0 -> store
    [] k = 1 -> LREM(store, key, ToBytes(note_id))
    [] k = 2 -> LPUSH(LREM(store, key, ToBytes(note_id)), key, ToBytes(note_id))
    [] k = 3 -> LTRIM(LPUSH(LREM(store, key, ToBytes(note_id)), key, ToBytes(note_id)),
                      key, 0, recent_notes_limit - 1)
    [] k = 4 -> RecentPipeline(store, t, key, note_id)

\* a push_recent_note call whose pipe.execute() raises
CallPushRecentFailing ==
  \E ip \in Hosts, note_id \in ViewIds, k \in execute_failing(4) :
    /\ Running(viewed[ip], now) => Len(viewed[ip].log) < MaxPushes
    /\ kv' = RecentBatch(kv, now, _recent_key(ip), note_id, k)
    /\ viewed' = IF k = 4 THEN [viewed EXCEPT ![ip] = Logged(@, now, note_id)]
                  ELSE viewed
    /\ last' = [op |-> "push_recent_note", ip |-> ip, note_id |-> note_id,
                raised |-> TRUE]
    /\ UNCHANGED <<now, hist, puts, app>>

NextRecentBatch == CallPushRecent \/ CallPushRecentFailing \/ CallGetRecent \/ Tick

SpecRecentBatch == Init /\ [][NextRecentBatch]_vars

C13_EntryValidWhenWritten ==
  [][\A note_id \in NoteIds :
       (kv'.note[note_id].s # kv.note[note_id].s /\ kv'.note[note_id].s # NoData) =>
         /\ db[note_id] # <<>>
         /\ kv'.note[note_id].s = model_dump_json(model_validate(db[note_id][1]))]_vars

\* C14: a recent list changes only by the push of a read that answers 200 with
\* a record that is not soft-deleted.
C14_PushOnlyNotDeleted ==
  [][\A ip \in Hosts :
       kv'.recent[ip] # kv.recent[ip] =>
         \E s \in Slots :
           /\ req[s].kind = "read" /\ req[s].pc = "read_push" /\ req[s].peer = ip
           /\ req'[s].status = 200
           /\ ~req[s].resp[1].is_deleted]_vars

\* C15: the steps of a request up to and including the rate limiter change
\* nothing but the rate counter of the request's client; a request whose count
\* exceeds rate_limit ends there with 429, and 429 comes from nowhere else.
C15_LimiterBeforeEffects ==
  [][\A s \in Slots :
       (req'[s] # req[s] /\ req[s].pc \in {"done", "get_redis", "lock", "locked", "rate"}) =>
         /\ db' = db /\ kv'.note = kv.note /\ kv'.recent = kv.recent
         /\ \A ip \in RateIps :
              (req[s].pc # "rate" \/ ip # client_ip(req[s].peer)) =>
                kv'.rate[ip] = kv.rate[ip]
         /\ (req[s].pc = "rate" /\ kv' # kv
               /\ kv'.rate[client_ip(req[s].peer)].n > rate_limit) =>
              (req'[s].pc = "done" /\ req'[s].status = 429)
         /\ req'[s].status = 429 =>
              (req[s].pc = "rate" /\ kv'.rate[client_ip(req[s].peer)].n > rate_limit)]_vars

\* a request was rejected while the table holds a row and the cache an entry
C15_Witness ==
  /\ \E s \in Slots : req[s].pc = "done" /\ req[s].status = 429
  /\ Rows(db) # {}
  /\ \E note_id \in NoteIds : kv.note[note_id].s # NoData

\* C16: while the last successful push of a client is less than
\* rate_limit_window_seconds old its list exists and expires a full window after
\* that push; once no push was made for a full window the list is gone and a read
\* returns the empty list.
C16_SlidingExpiry ==
  \A ip \in Hosts :
    IF Running(viewed[ip], now)
      THEN /\ kv.recent[ip].l # <<>>
           /\ kv.recent[ip].exp = viewed[ip].at + rate_limit_window_seconds
      ELSE /\ kv.recent[ip] = EmptyStore.recent[ip]
           /\ get_recent_notes(kv, ip, TRUE).ret = <<>>

\* a client pushed more than once, then made no push for a full window, and a read
\* returned the empty list
C16_Witness ==
  \E ip \in Hosts :
    /\ viewed[ip].at >= 1 /\ Len(viewed[ip].log) >= 2
    /\ now >= viewed[ip].at + rate_limit_window_seconds
    /\ last.op = "get_recent_notes" /\ last.ip = ip /\ ~last.raised /\ last.ret = <<>>

(* ------------------------------------------------------------------ *)
(* Requests on a note created earlier                                  *)
(* ------------------------------------------------------------------ *)

\* the table after n notes were created at time 0
RECURSIVE Created(_)
Created(n) ==
  IF n = 0 THEN [id \in NoteIds |-> <<>>]
  ELSE create_note(Created(n - 1), 0, Some(<<"work">>)).db

\* the service with notes in the table and nothing in the store: the notes were
\* created while the store could not be reached
InitNotes ==
  /\ now = 0
  /\ kv = EmptyStore
  /\ hist = [ip \in RateIps |-> NoWindow]
  /\ viewed = [ip \in Hosts |-> NoViews]
  /\ puts = [id \in NoteIds |-> NoPut]
  /\ last = Idle
  /\ db = Created(NumNotes)
  /\ _redis_instance = None
  /\ _lock = 0
  /\ made = 0
  /\ configured = TRUE
  /\ started = 0
  /\ redis_up = TRUE
  /\ req = [s \in Slots |-> NoRequest]

\* reads, deletes and recently-viewed requests
StartNotes(s) ==
  /\ started < MaxNoteRequests
  /\ Arrive(s, {in \in Inputs : in.kind \in {"read", "delete", "recent"}})

\* hosts that view notes and ask for their recent list, and deletes sent without
\* a client address
Views ==
  {in \in Inputs :
     \/ in.kind = "read" /\ in.peer # NoPeer /\ ~in.use_cache /\ ~in.include_deleted
     \/ in.kind = "recent" /\ in.peer # NoPeer
     \/ in.kind = "delete" /\ in.peer = NoPeer}

StartViews(s) ==
  /\ started < MaxNoteRequests
  /\ Arrive(s, Views)

StepViews(s) ==
  \/ StartViews(s)
  \/ GetRedisTest(s)
  \/ GetRedisAcquire(s)
  \/ GetRedisLocked(s)
  \/ RateLimit(s)
  \/ RecentKv(s)
  \/ RecentDb(s)
  \/ ReadDb(s)
  \/ ReadPut(s)
  \/ ReadPush(s)
  \/ DeleteDb(s)
  \/ DeleteCache(s)

\* the store is reachable throughout: outages are followed in Spec
NextViews == (\E s \in Slots : StepViews(s)) \/ Tick

SpecViews == InitNotes /\ [][NextViews]_vars

\* the same requests sent one after the other, each after the response to the one
\* before, with the store reachable throughout
StartSeq(s) ==
  /\ \A o \in Slots : req[o].pc = "done"
  /\ StartNotes(s)

StepSeq(s) ==
  \/ StartSeq(s)
  \/ GetRedisTest(s)
  \/ GetRedisAcquire(s)
  \/ GetRedisLocked(s)
  \/ RateLimit(s)
  \/ RecentKv(s)
  \/ RecentDb(s)
  \/ ReadCache(s)
  \/ ReadDb(s)
  \/ ReadPut(s)
  \/ ReadPush(s)
  \/ DeleteDb(s)
  \/ DeleteCache(s)

NextSeq == \E s \in Slots : StepSeq(s)

SpecSeq == InitNotes /\ [][NextSeq]_vars

\* C17: with the store reachable and the requests sent one after the other, no
\* read with include_deleted=false gets a record once the delete of that record
\* has completed: such a read never reaches its response while the row is
\* soft-deleted.
C17_DeletedNotServed ==
  \A s \in Slots :
    (/\ req[s].kind = "read" /\ ~req[s].include_deleted
     /\ req[s].pc \in {"read_put", "read_push"}) =>
      /\ db[req[s].note_id] # <<>>
      /\ ~db[req[s].note_id][1].is_deleted

\* the store as far as the client sending from peer is concerned: its own rate
\* counter and recent list, with every other client's data absent
Own(store, peer) ==
  [rate   |-> [ip \in RateIps |->
                 IF ip = client_ip(peer) THEN store.rate[ip] ELSE EmptyStore.rate[ip]],
   recent |-> [ip \in Hosts |->
                 IF ip = peer THEN store.recent[ip] ELSE EmptyStore.recent[ip]],
   note   |-> store.note]

Live(table, note_ids) ==
  SelectSeq(note_ids, LAMBDA id : table[id] # <<>> /\ ~table[id][1].is_deleted)

\* C19: the recently-viewed request reads the client's list (at most
\* recent_notes_limit identifiers, most recent first) and answers 200 with the
\* current rows of the identifiers whose note is not soft-deleted, in the order of
\* the list; the other identifiers are skipped.
C19_RecentEndpoint ==
  /\ [](\A s \in Slots :
          req[s].pc = "recent_db" =>
            LET items == Found(db, req[s].ids) IN
            /\ Len(items) <= recent_notes_limit
            /\ [i \in 1..Len(items) |-> items[i].id] = Live(db, req[s].ids)
            /\ \A i \in 1..Len(items) :
                 /\ ~items[i].is_deleted
                 /\ items[i] = model_validate(db[items[i].id][1]))
  /\ [][\A s \in Slots :
          /\ (req[s].pc = "recent_kv" /\ req'[s] # req[s] /\ req[s].peer # NoPeer) =>
               req'[s].ids = [i \in 1..Len(kv.recent[req[s].peer].l) |->
                                int(kv.recent[req[s].peer].l[i])]
          /\ (req[s].pc = "recent_db" /\ req'[s] # req[s]) =>
               req'[s].status = 200]_vars

\* a recently-viewed request holds a list of two identifiers, the first of a note
\* that was soft-deleted since it was viewed: it answers with the second only
C19_Witness ==
  \E s \in Slots :
    /\ req[s].pc = "recent_db"
    /\ Len(req[s].ids) = 2
    /\ db[req[s].ids[1]][1].is_deleted
    /\ Len(Found(db, req[s].ids)) = 1

====
